---- MODULE Spec2Model ----
(***************************************************************************)
(* Contextual RAG assistant: index build / load (loader.py), retrieval     *)
(* (retriever.py), the three answer chains (generator.py) and the          *)
(* Streamlit script that drives them (app.py).                             *)
(*                                                                         *)
(* Strings are sequences of tokens, so that concatenation, strip() and     *)
(* Path(...).name are computed, not assumed.  Every call to an external    *)
(* service (PDF extraction, chat completion, embedding, the Chroma store)  *)
(* either returns a value drawn from a small set or raises.                *)
(***************************************************************************)
EXTENDS Integers, Sequences, FiniteSets, TLC

VARIABLES
    dir,         \* VECTOR_DB_DIR on disk: "absent", "empty" or "nonempty"
    collection,  \* the persisted Chroma collection "my_context_db", or NoCollection
    nextUuid,    \* uuid.uuid4() values handed out so far (all are distinct)
    messages,    \* st.session_state["messages"]
    run          \* what the most recent script run did (history variable)

vars == <<dir, collection, nextUuid, messages, run>>

----------------------------------------------------------------------------
(* Bounds of the model *)

MaxUuid == 4        \* uuids that may be drawn in one behaviour
MaxFiles == 2       \* uploaded files per build
MaxMessages == 3    \* entries of the chat history
MaxTopK == 2        \* values of the Top-K slider that are explored
MaxCitations == 1   \* citations in one structured answer
WindowTokens == 2   \* tokens per window (stands for CHUNK_SIZE characters)

----------------------------------------------------------------------------
(* Strings *)

Whitespace == {" ", "\n"}

RECURSIVE LStrip(_)
LStrip(s) == IF s # <<>> /\ Head(s) \in Whitespace THEN LStrip(Tail(s)) ELSE s

RECURSIVE RStrip(_)
RStrip(s) ==
    IF s # <<>> /\ s[Len(s)] \in Whitespace
    THEN RStrip(SubSeq(s, 1, Len(s) - 1))
    ELSE s

\* str.strip()
Strip(s) == RStrip(LStrip(s))

\* sep.join(parts)
RECURSIVE Join(_, _)
Join(sep, parts) ==
    IF parts = <<>> THEN <<>>
    ELSE IF Len(parts) = 1 THEN parts[1]
    ELSE parts[1] \o sep \o Join(sep, Tail(parts))

\* Path(p).name: what follows the last "/"
RECURSIVE PathName(_)
PathName(p) ==
    IF "/" \in {p[i] : i \in 1..Len(p)} THEN PathName(Tail(p)) ELSE p

\* dict.get(key, default)
Get(m, key, default) == IF key \in DOMAIN m THEN m[key] ELSE default

----------------------------------------------------------------------------
(* The uploaded PDFs and the services outside the program *)

FileNames == {"a.pdf", "b.pdf", "bad.pdf"}

\* data_dir / f.name
SavePath(name) == <<"uploaded_docs", "/", name>>

\* a call that raised, and a call that returned v
Raised == [ok |-> FALSE, value |-> <<>>]
Returned(v) == [ok |-> TRUE, value |-> v]

\* PyMuPDFLoader(file_path).load(): one Document per page, or an exception
PdfPages(file_path) ==
    CASE file_path = SavePath("a.pdf") -> Returned(
            << [page_content |-> <<"a1">>,
                metadata |-> [source |-> file_path, page |-> 0]],
               [page_content |-> <<"a2">>,
                metadata |-> [source |-> file_path, page |-> 1]] >>)
      [] file_path = SavePath("b.pdf") -> Returned(
            << [page_content |-> <<"b1", "b2", "b3">>,
                metadata |-> [source |-> file_path, page |-> 0]] >>)
      [] OTHER -> Raised

\* what the chat model may answer to the context prompt, before strip()
RawContexts == { <<" ", "ctx", "\n">>, <<"intro">> }
CtxOutcomes == {Returned(c) : c \in RawContexts} \cup {Raised}

----------------------------------------------------------------------------
(* loader.py: chunking *)

\* load_pdf
load_pdf(file_path) == PdfPages(file_path)

\* RecursiveCharacterTextSplitter(chunk_size, chunk_overlap = 0) on one page:
\* consecutive windows of at most WindowTokens tokens, metadata of the page
RECURSIVE SplitPage(_, _)
SplitPage(text, meta) ==
    IF text = <<>> THEN <<>>
    ELSE IF Len(text) <= WindowTokens
         THEN << [page_content |-> text, metadata |-> meta] >>
         ELSE << [page_content |-> SubSeq(text, 1, WindowTokens), metadata |-> meta] >>
              \o SplitPage(SubSeq(text, WindowTokens + 1, Len(text)), meta)

\* splitter.split_documents(doc_pages)
RECURSIVE split_documents(_)
split_documents(doc_pages) ==
    IF doc_pages = <<>> THEN <<>>
    ELSE SplitPage(doc_pages[1].page_content, doc_pages[1].metadata)
         \o split_documents(Tail(doc_pages))

\* the windows of a file; none when it cannot be read
WindowsOf(file_path) ==
    IF load_pdf(file_path).ok THEN split_documents(load_pdf(file_path).value)
    ELSE <<>>

Separator == <<"\n", "\n">>

\* generate_chunk_context: the reply of the chat model, stripped; raises when
\* the call raises
generate_chunk_context(document, chunk, reply) ==
    IF reply.ok THEN Returned(Strip(reply.value)) ELSE Raised

\* ChunkMetadata with the id taken from the page number instead of a uuid
ChunkMetadata_PageAsId(chunk, file_path, uuid) ==
    [ id     |-> ToString(Get(chunk.metadata, "page", 0)),
      page   |-> Get(chunk.metadata, "page", 0),
      source |-> Get(chunk.metadata, "source", file_path),
      title  |-> PathName(Get(chunk.metadata, "source", file_path)) ]

\* the metadata of the chunk made from a window
ChunkMetadata(chunk, file_path, uuid) ==
    [ id     |-> ToString(uuid),
      page   |-> Get(chunk.metadata, "page", 0),
      source |-> Get(chunk.metadata, "source", file_path),
      title  |-> PathName(Get(chunk.metadata, "source", file_path)) ]

\* the Document appended for one window
ContextualChunk(chunk, file_path, uuid, context) ==
    [ page_content |-> context \o Separator \o chunk.page_content,
      metadata     |-> ChunkMetadata(chunk, file_path, uuid) ]

\* the loop "for chunk in doc_chunks" from window i on; replies[i] is what the
\* chat model does on the call for window i, uuid the next fresh uuid.
\* An exception leaves the loop with no list.
RECURSIVE ChunkLoop(_, _, _, _, _, _, _)
ChunkLoop(doc_chunks, i, file_path, original_doc_text, replies, uuid, acc) ==
    IF i > Len(doc_chunks)
    THEN [status |-> "ok", docs |-> acc, uuids |-> uuid, failed |-> 0]
    ELSE LET context == generate_chunk_context(original_doc_text,
                                               doc_chunks[i].page_content, replies[i])
         IN  IF ~context.ok
             THEN [status |-> "GenerationFailure", docs |-> <<>>,
                   uuids |-> uuid + 1, failed |-> i]
             ELSE ChunkLoop(doc_chunks, i + 1, file_path, original_doc_text, replies,
                            uuid + 1,
                            Append(acc, ContextualChunk(doc_chunks[i], file_path,
                                                        uuid, context.value)))

\* create_contextual_chunks(file_path)
create_contextual_chunks(file_path, replies, uuid) ==
    IF ~load_pdf(file_path).ok
    THEN [status |-> "ExtractionFailure", docs |-> <<>>, uuids |-> uuid, failed |-> 0]
    ELSE LET doc_pages == load_pdf(file_path).value
             original_doc_text ==
                 Join(Separator, [p \in 1..Len(doc_pages) |-> doc_pages[p].page_content])
             doc_chunks == split_documents(doc_pages)
         IN  ChunkLoop(doc_chunks, 1, file_path, original_doc_text, replies, uuid, <<>>)

----------------------------------------------------------------------------
(* The Chroma store behind langchain_chroma.Chroma *)

NoCollection == [exists |-> FALSE, docs |-> <<>>]
Store(d, c) == [dir |-> d, collection |-> c]

\* Chroma(persist_directory, collection_name): the client creates the directory
\* and its database file, and the collection is fetched with get_or_create
ChromaOpen(store) ==
    Store("nonempty",
          IF store.collection.exists THEN store.collection
          ELSE [exists |-> TRUE, docs |-> <<>>])

\* collection.upsert under keys drawn afresh for every document: the new
\* entries follow the ones already stored
Upsert(store, documents) ==
    Store(store.dir, [exists |-> TRUE, docs |-> store.collection.docs \o documents])

\* Chroma.from_documents(documents, collection_name, embedding, persist_directory)
from_documents(store, documents, embedOk, writeOk) ==
    LET opened == ChromaOpen(store) IN
    IF ~embedOk THEN [status |-> "EmbeddingFailure", store |-> opened]
    ELSE IF ~writeOk THEN [status |-> "StoreFailure", store |-> opened]
    ELSE [status |-> "ok", store |-> Upsert(opened, documents)]

----------------------------------------------------------------------------
(* loader.py: building and loading the index *)

\* the loop "for fp in file_paths" from file j on; replies are the chat model's
\* replies to the calls still to come
RECURSIVE AllDocs(_, _, _, _, _)
AllDocs(file_paths, j, replies, uuid, all_docs) ==
    IF j > Len(file_paths)
    THEN [status |-> "ok", docs |-> all_docs, uuids |-> uuid,
          failedFile |-> 0, failedWindow |-> 0]
    ELSE LET contextual == create_contextual_chunks(file_paths[j], replies, uuid)
             n == Len(WindowsOf(file_paths[j]))
         IN  IF contextual.status # "ok"
             THEN [status |-> contextual.status, docs |-> <<>>,
                   uuids |-> contextual.uuids,
                   failedFile |-> j, failedWindow |-> contextual.failed]
             ELSE AllDocs(file_paths, j + 1, SubSeq(replies, n + 1, Len(replies)),
                          contextual.uuids, all_docs \o contextual.docs)

\* build_vectorstore_from_pdfs(file_paths, persist_directory)
build_vectorstore_from_pdfs(file_paths, store, replies, uuid, embedOk, writeOk) ==
    LET all == AllDocs(file_paths, 1, replies, uuid, <<>>) IN
    IF all.status # "ok"
    THEN [status |-> all.status, store |-> store, docs |-> <<>>, uuids |-> all.uuids,
          failedFile |-> all.failedFile, failedWindow |-> all.failedWindow]
    ELSE LET written == from_documents(store, all.docs, embedOk, writeOk) IN
         [status |-> written.status, store |-> written.store, docs |-> all.docs,
          uuids |-> all.uuids, failedFile |-> 0, failedWindow |-> 0]

\* load_vectorstore(persist_directory)
load_vectorstore(store) == ChromaOpen(store)

----------------------------------------------------------------------------
(* retriever.py and generator.py *)

Questions == { <<"q1">>, <<"q2">> }
Answers == { <<"yes">>, <<"unknown">> }
Modes == {"Answer only", "Answer + sources", "Answer + citations"}

\* the sequences without repetition, of length n, of positions of docs
Orders(docs, n) ==
    { f \in [1..n -> 1..Len(docs)] : \A i, j \in 1..n : f[i] = f[j] => i = j }

Min(a, b) == IF a <= b THEN a ELSE b

\* get_similarity_retriever(vectorstore, k).invoke(question): k entries of the
\* collection in an order the embeddings decide, all of them when it has fewer
Retrievals(store, k) ==
    LET docs == store.collection.docs IN
    { [i \in 1..Len(f) |-> docs[f[i]]] : f \in Orders(docs, Min(k, Len(docs))) }

\* format_docs
format_docs(docs) ==
    Join(Separator, [i \in 1..Len(docs) |-> docs[i].page_content])

\* one entry of format_docs_with_metadata
FormatDoc(doc) ==
    LET m == doc.metadata IN
    <<"Context Article ID: ", m.id, "\n", "Context Article Source: ">> \o m.source
    \o <<"\n", "Context Article Title: ">> \o m.title
    \o <<"\n", "Context Article Page: ", ToString(m.page), "\n", "\n", "Content:", "\n">>
    \o doc.page_content \o <<"\n">>

\* format_docs_with_metadata
format_docs_with_metadata(docs) ==
    Join(<<"\n", "\n", "---", "\n", "\n">>, [i \in 1..Len(docs) |-> FormatDoc(docs[i])])

\* one call made by a chain, as the service called sees it
Call(stage, question, context, answer) ==
    [stage |-> stage, question |-> question, context |-> context, answer |-> answer]

NoResult == [context |-> <<>>, question |-> <<>>, answer |-> <<>>, citations |-> <<>>]

\* a chain that raised after the calls made so far
ChainRaised(kind, calls) == [status |-> kind, result |-> NoResult, calls |-> calls]

\* the first step of every chain: {"context": retriever, "question": passthrough}
RetrieveStep(question, retrieved) ==
    [context |-> retrieved.value, question |-> question,
     answer |-> <<>>, citations |-> <<>>]

\* RunnablePassthrough.assign(answer = rag_response_chain): the input with one
\* more key
AssignAnswer(state, answer) == [state EXCEPT !.answer = answer]

\* RunnablePassthrough.assign(citations = cite_response_chain)
AssignCitations(state, citations) == [state EXCEPT !.citations = citations]

\* make_basic_rag_chain(retriever).invoke(question)
make_basic_rag_chain(question, retrieved, reply) ==
    LET c1 == << Call("retrieve", question, <<>>, <<>>) >> IN
    IF ~retrieved.ok THEN ChainRaised("RetrievalFailure", c1)
    ELSE LET c2 == Append(c1, Call("generate", question,
                                   format_docs(retrieved.value), <<>>))
         IN  IF ~reply.ok THEN ChainRaised("GenerationFailure", c2)
             ELSE [status |-> "ok",
                   result |-> [NoResult EXCEPT !.answer = reply.value],
                   calls |-> c2]

\* make_rag_with_sources_chain(retriever).invoke(question)
make_rag_with_sources_chain(question, retrieved, reply) ==
    LET c1 == << Call("retrieve", question, <<>>, <<>>) >> IN
    IF ~retrieved.ok THEN ChainRaised("RetrievalFailure", c1)
    ELSE LET state == RetrieveStep(question, retrieved)
             c2 == Append(c1, Call("generate", state.question,
                                   format_docs(state.context), <<>>))
         IN  IF ~reply.ok THEN ChainRaised("GenerationFailure", c2)
             ELSE [status |-> "ok", result |-> AssignAnswer(state, reply.value),
                   calls |-> c2]

\* CiteInput with the context formatted by format_docs, without the metadata
CiteInput_PlainContext(state) ==
    Call("cite", state.question, format_docs(state.context), state.answer)

\* cite_response_chain: the input of the structured call
CiteInput(state) ==
    Call("cite", state.question, format_docs_with_metadata(state.context), state.answer)

\* make_rag_with_citations_chain(retriever).invoke(question); cited is what
\* the structured call does: a QuotedCitations value, or an exception when the
\* reply does not fit the schema or the service fails
make_rag_with_citations_chain(question, retrieved, reply, cited) ==
    LET c1 == << Call("retrieve", question, <<>>, <<>>) >> IN
    IF ~retrieved.ok THEN ChainRaised("RetrievalFailure", c1)
    ELSE LET state == RetrieveStep(question, retrieved)
             c2 == Append(c1, Call("generate", state.question,
                                   format_docs_with_metadata(state.context), <<>>))
         IN  IF ~reply.ok THEN ChainRaised("GenerationFailure", c2)
             ELSE LET answered == AssignAnswer(state, reply.value)
                      c3 == Append(c2, CiteInput(answered))
                  IN  IF ~cited.ok THEN ChainRaised("StructuredOutputInvalid", c3)
                      ELSE [status |-> "ok",
                            result |-> AssignCitations(answered, cited.value),
                            calls |-> c3]

\* a Citation the structured call may return for a stored document
CitationOf(doc) ==
    [ id |-> doc.metadata.id, source |-> doc.metadata.source,
      title |-> doc.metadata.title, page |-> doc.metadata.page,
      quotes |-> doc.page_content ]

\* a Citation of an article that is nowhere in the store
Invented ==
    [ id |-> "0", source |-> <<"nowhere">>, title |-> <<"nowhere">>, page |-> 0,
      quotes |-> <<"made", "up">> ]

\* the citation lists the structured call may return: it is free to name any
\* article, in the context or not
CitationLists(store) ==
    LET docs == store.collection.docs
        cands == {CitationOf(docs[i]) : i \in 1..Len(docs)} \cup {Invented}
    IN  UNION { [1..n -> cands] : n \in 0..MaxCitations }

----------------------------------------------------------------------------
(* app.py: the script, run once per interaction *)

\* "Load existing vectorstore if present": the store after these lines
vectorstore_available(store) == store.dir = "nonempty"

LoadStep(store) ==
    IF vectorstore_available(store) THEN load_vectorstore(store) ELSE store

\* the sequences without repetition of 1..MaxFiles uploaded files
Uploads ==
    UNION { { f \in [1..n -> FileNames] : \A i, j \in 1..n : f[i] = f[j] => i = j }
            : n \in 1..MaxFiles }

RECURSIVE TotalWindows(_)
TotalWindows(file_paths) ==
    IF file_paths = <<>> THEN 0
    ELSE Len(WindowsOf(Head(file_paths))) + TotalWindows(Tail(file_paths))

Init ==
    /\ dir \in {"absent", "empty", "nonempty"}
    /\ collection = NoCollection
    /\ nextUuid = 1
    /\ messages = <<>>
    /\ run = [op |-> "none"]

\* the context call for window i of the batch is not reached: an earlier call
\* raised, or a file before (or at) its own could not be read
NeverCalled(file_paths, replies, i) ==
    \/ \E k \in 1..(i - 1) : ~replies[k].ok
    \/ \E j \in 1..Len(file_paths) :
          /\ ~load_pdf(file_paths[j]).ok
          /\ TotalWindows(SubSeq(file_paths, 1, j)) < i

\* "ok" when the script loaded a vectorstore, "none" when vectorstore = None
LoadOutcome(store) == IF vectorstore_available(store) THEN "ok" ELSE "none"

\* the run started by "Build / Refresh Vector Index" with uploaded files
Build ==
    \E uploaded \in Uploads :
      LET pdf_paths == [i \in 1..Len(uploaded) |-> SavePath(uploaded[i])]
          n == TotalWindows(pdf_paths)
          before == Store(dir, collection)
      IN  /\ nextUuid - 1 + n <= MaxUuid
          /\ \E replies \in [1..n -> CtxOutcomes] :
               LET chunked == AllDocs(pdf_paths, 1, replies, nextUuid, <<>>) IN
               \* calls that are never made have no outcome of their own
               /\ \A i \in 1..n : NeverCalled(pdf_paths, replies, i) => replies[i] = Raised
               /\ \E embedOk \in IF chunked.status = "ok" THEN BOOLEAN ELSE {TRUE},
                  writeOk \in IF chunked.status = "ok" THEN BOOLEAN ELSE {TRUE} :
                 LET built == build_vectorstore_from_pdfs(pdf_paths, before, replies,
                                                          nextUuid, embedOk, writeOk)
                     after == IF built.status = "ok" THEN LoadStep(built.store)
                              ELSE built.store
                 IN  /\ dir' = after.dir
                     /\ collection' = after.collection
                     /\ nextUuid' = built.uuids
                     /\ run' = [op |-> "build", status |-> built.status,
                                files |-> pdf_paths, replies |-> replies,
                                embedOk |-> embedOk, writeOk |-> writeOk,
                                docs |-> built.docs,
                                failedFile |-> built.failedFile,
                                failedWindow |-> built.failedWindow,
                                storeBefore |-> before,
                                load |-> IF built.status = "ok"
                                         THEN LoadOutcome(built.store) ELSE "none"]
                     /\ UNCHANGED messages

\* a run with no button pressed and no question (a widget changed)
Rerun ==
    LET before == Store(dir, collection)
        after == LoadStep(before)
    IN  /\ dir' = after.dir
        /\ collection' = after.collection
        /\ run' = [op |-> "rerun", storeBefore |-> before, load |-> LoadOutcome(before)]
        /\ UNCHANGED <<nextUuid, messages>>

\* the entries the chat handler appends
UserMessage(user_query) == [role |-> "user", content |-> user_query]

\* AssistantMessage where every mode but "Answer only" attaches the sources
AssistantMessage_SourcesEverywhere(mode, result) ==
    IF mode = "Answer only"
    THEN [role |-> "assistant", content |-> result.answer]
    ELSE [role |-> "assistant", content |-> result.answer, sources |-> result.context]

AssistantMessage(mode, result) ==
    IF mode = "Answer only"
    THEN [role |-> "assistant", content |-> result.answer]
    ELSE IF mode = "Answer + sources"
    THEN [role |-> "assistant", content |-> result.answer, sources |-> result.context]
    ELSE [role |-> "assistant", content |-> result.answer,
          citations |-> result.citations]

\* the chain of the selected mode, run on the question
RunChain(mode, user_query, retrieved, reply, cited) ==
    IF mode = "Answer only" THEN make_basic_rag_chain(user_query, retrieved, reply)
    ELSE IF mode = "Answer + sources"
    THEN make_rag_with_sources_chain(user_query, retrieved, reply)
    ELSE make_rag_with_citations_chain(user_query, retrieved, reply, cited)

\* HistoryAfter where a failed turn overwrites the last entry of the history
HistoryAfter_Overwrite(msgs, mode, user_query, out) ==
    IF out.status = "ok"
    THEN Append(Append(msgs, UserMessage(user_query)), AssistantMessage(mode, out.result))
    ELSE Append(SubSeq(msgs, 1, Len(msgs) - 1), UserMessage(user_query))

\* the history after a turn whose chain ended as out
HistoryAfter(msgs, mode, user_query, out) ==
    IF out.status = "ok"
    THEN Append(Append(msgs, UserMessage(user_query)), AssistantMessage(mode, out.result))
    ELSE Append(msgs, UserMessage(user_query))

\* the run started by a question typed into the chat input
Ask ==
    \E user_query \in Questions, api_key \in {"", "sk"}, mode \in Modes,
       top_k \in 1..MaxTopK :
      LET before == Store(dir, collection)
          store == LoadStep(before)
          rejected == api_key = "" \/ ~vectorstore_available(before)
      IN  /\ Len(messages) + 2 <= MaxMessages
          /\ dir' = store.dir
          /\ collection' = store.collection
          /\ UNCHANGED nextUuid
          /\ \E retrieved \in IF rejected THEN {Raised}
                                ELSE {Returned(r) : r \in Retrievals(store, top_k)}
                                     \cup {Raised} :
             \E reply \in IF retrieved.ok
                           THEN {Returned(a) : a \in Answers} \cup {Raised}
                           ELSE {Raised} :
             \E cited \in IF reply.ok /\ mode = "Answer + citations"
                           THEN {Returned(c) : c \in CitationLists(store)} \cup {Raised}
                           ELSE {Raised} :
               LET out == IF rejected
                          THEN ChainRaised(IF api_key = "" THEN "no_api_key"
                                           ELSE "no_index", <<>>)
                          ELSE RunChain(mode, user_query, retrieved, reply, cited)
               IN  /\ messages' = IF rejected THEN messages
                                  ELSE HistoryAfter(messages, mode, user_query, out)
                   /\ run' = [op |-> "ask", mode |-> mode, question |-> user_query,
                              api_key |-> api_key,
                              status |-> out.status, result |-> out.result,
                              calls |-> out.calls,
                              retrieved |-> retrieved, reply |-> reply, cited |-> cited,
                              before |-> messages,
                              storeBefore |-> before, load |-> LoadOutcome(before)]

\* The index: builds and reloads of the persisted collection
Next == Build \/ Rerun

Spec == Init /\ [][Next]_vars

\* The chat: questions asked of a store that is missing, foreign, or was built
\* from one upload
ChatUploads == { <<"a.pdf">>, <<"b.pdf">> }

InitChat ==
    /\ messages = <<>>
    /\ run = [op |-> "none"]
    /\ \/ /\ dir \in {"absent", "empty", "nonempty"}
          /\ collection = NoCollection
          /\ nextUuid = 1
       \/ \E uploaded \in ChatUploads :
            LET pdf_paths == [i \in 1..Len(uploaded) |-> SavePath(uploaded[i])]
                replies == [i \in 1..TotalWindows(pdf_paths) |-> Returned(<<"intro">>)]
                built == build_vectorstore_from_pdfs(pdf_paths,
                             Store("absent", NoCollection), replies, 1, TRUE, TRUE)
            IN  /\ dir = built.store.dir
                /\ collection = built.store.collection
                /\ nextUuid = built.uuids

NextChat == Ask \/ Rerun

ChatSpec == InitChat /\ [][NextChat]_vars

----------------------------------------------------------------------------
(* Helpers of the properties *)

\* the windows of a batch, in the order the build visits them
RECURSIVE BuildWindows(_)
BuildWindows(file_paths) ==
    IF file_paths = <<>> THEN <<>>
    ELSE WindowsOf(Head(file_paths)) \o BuildWindows(Tail(file_paths))

Readable(file_path) == load_pdf(file_path).ok

AllReadable(file_paths) == \A j \in 1..Len(file_paths) : Readable(file_paths[j])

\* how many documents of docs come from file_path
CountFrom(file_path, docs) ==
    Cardinality({i \in 1..Len(docs) : docs[i].metadata.source = file_path})

IsPrefix(s, t) == Len(s) <= Len(t) /\ SubSeq(t, 1, Len(s)) = s

BuildRun == run.op = "build"
AskRun == run.op = "ask"

----------------------------------------------------------------------------
(* Properties of the index (specification Spec) *)

\* C1: after a successful build the collection holds exactly the chunks that
\* this most recent build produced; nothing of an earlier build remains.
C1_RebuildReplacesCollection ==
    (BuildRun /\ run.status = "ok") => collection.docs = run.docs

\* C2: a build that fails at any step leaves the persisted store (directory
\* and collection) exactly as it was before the build started.
C2_FailedBuildLeavesStore ==
    (BuildRun /\ run.status # "ok") => Store(dir, collection) = run.storeBefore

\* C3: when the context call fails for a window of a readable batch, chunking
\* is not aborted and the window is emitted with an empty context: its chunk
\* is the raw window text (alone or after the separator).
C3_ContextFailureKeepsWindow ==
    (BuildRun /\ AllReadable(run.files)) =>
        /\ run.status # "GenerationFailure"
        /\ \A i \in 1..Len(run.replies) :
              (~run.replies[i].ok /\ ~NeverCalled(run.files, run.replies, i)) =>
                  /\ Len(run.docs) = Len(run.replies)
                  /\ run.docs[i].page_content \in
                        { BuildWindows(run.files)[i].page_content,
                          Separator \o BuildWindows(run.files)[i].page_content }

\* C4: in a batch where one file cannot be extracted (every call that is
\* made succeeding), each readable file of the batch is still chunked and all its
\* chunks are added to the collection.
C4_OtherDocumentsContinue ==
    ( /\ BuildRun
      /\ ~AllReadable(run.files)
      /\ \A i \in 1..Len(run.replies) :
            run.replies[i].ok \/ NeverCalled(run.files, run.replies, i)
      /\ run.embedOk /\ run.writeOk ) =>
        \A j \in 1..Len(run.files) :
            Readable(run.files[j]) =>
                CountFrom(run.files[j], collection.docs)
                    = CountFrom(run.files[j], run.storeBefore.collection.docs)
                      + Len(WindowsOf(run.files[j]))

----------------------------------------------------------------------------
(* Properties of the chat (specification ChatSpec) *)

CitationsMode == "Answer + citations"

\* the citation call of the last run was made and raised
CitationCallRaised ==
    /\ AskRun /\ run.mode = CitationsMode
    /\ Len(run.calls) = 3 /\ ~run.cited.ok

\* the ids of the chunks of a context
ContextIds(docs) == {docs[i].metadata.id : i \in 1..Len(docs)}

\* C5: when the citation call raises (its reply does not fit the schema), the
\* turn still succeeds: the generated answer is recorded as the assistant
\* turn, with an empty citation list.
C5_InvalidCitationsDegrade ==
    CitationCallRaised =>
        messages = run.before \o
            << UserMessage(run.question),
               [role |-> "assistant", content |-> run.reply.value,
                citations |-> <<>>] >>

\* C6: every citation returned by a with-citations turn names, by id, a chunk
\* of the context that was supplied to the citation call of that turn.
C6_CitationIdsInContext ==
    (AskRun /\ run.mode = CitationsMode /\ run.status = "ok") =>
        \A i \in 1..Len(run.result.citations) :
            run.result.citations[i].id \in ContextIds(run.retrieved.value)

\* C7: every step keeps the history recorded so far as a prefix of the new
\* history (present, unchanged, same order); a failed turn adds only its
\* user entry and a successful turn, also after failed ones, adds its user
\* entry followed by its assistant entry.
C7_HistorySurvivesFailures ==
    [][ /\ IsPrefix(messages, messages')
        /\ (run'.op = "ask" /\ run'.status \in {"no_api_key", "no_index"})
              => messages' = messages
        /\ (run'.op = "ask" /\ run'.status \in
                {"RetrievalFailure", "GenerationFailure", "StructuredOutputInvalid"})
              => messages' = Append(messages, UserMessage(run'.question))
        /\ (run'.op = "ask" /\ run'.status = "ok")
              => /\ Len(messages') = Len(messages) + 2
                 /\ messages'[Len(messages) + 1] = UserMessage(run'.question)
                 /\ messages'[Len(messages) + 2].role = "assistant"
                 /\ messages'[Len(messages) + 2].content = run'.reply.value
      ]_vars

\* a failed turn with history before it, followed by a turn that succeeded
C7_Witness ==
    /\ AskRun /\ run.status = "ok"
    /\ Len(messages) = 3
    /\ messages[1].role = "user" /\ messages[2].role = "user"
    /\ messages[3].role = "assistant"

\* C8: a load of a directory that exists but holds no collection does not
\* succeed (it ends in not-found and creates nothing), while a load of a
\* collection that exists with no entries succeeds and a query against it
\* returns the empty result.
C8_MissingIsNotEmpty ==
    (run.op \in {"rerun", "ask"}) =>
        /\ (run.storeBefore.dir # "absent" /\ ~run.storeBefore.collection.exists)
              => (run.load # "ok" /\ ~collection.exists)
        /\ (run.storeBefore.collection.exists /\ run.storeBefore.collection.docs = <<>>)
              => /\ run.load = "ok"
                 /\ (run.op = "ask" /\ run.retrieved.ok) => run.retrieved.value = <<>>

\* the stages named by a sequence of calls
Stages(calls) == [i \in 1..Len(calls) |-> calls[i].stage]

\* C9: a with-citations turn calls retrieve, generate, cite in this order,
\* each once; the citation call gets the question asked, the retrieved chunks
\* formatted with id/source/title/page and the answer generated; the result
\* keeps that context, question and answer, and the history records the answer.
C9_CitationStageFrame ==
    (AskRun /\ run.mode = CitationsMode /\ run.status \notin {"no_api_key", "no_index"}) =>
        /\ IsPrefix(Stages(run.calls), <<"retrieve", "generate", "cite">>)
        /\ run.calls[1].question = run.question
        /\ Len(run.calls) >= 2 =>
              /\ run.calls[2].question = run.question
              /\ run.calls[2].context = format_docs_with_metadata(run.retrieved.value)
        /\ Len(run.calls) = 3 =>
              /\ run.calls[3].question = run.question
              /\ run.calls[3].context = run.calls[2].context
              /\ run.calls[3].answer = run.reply.value
        /\ run.status = "ok" =>
              /\ Len(run.calls) = 3
              /\ run.result.context = run.retrieved.value
              /\ run.result.question = run.question
              /\ run.result.answer = run.reply.value
              /\ run.result.citations = run.cited.value
              /\ messages[Len(messages)].content = run.reply.value

\* a with-citations turn that ran all three stages over two retrieved chunks
C9_Witness ==
    /\ AskRun /\ run.mode = CitationsMode /\ run.status = "ok"
    /\ Len(run.retrieved.value) = 2
    /\ Len(run.result.citations) >= 1

\* the question of the last run was rejected by the guards of the handler
Rejected == run.api_key = "" \/ ~vectorstore_available(run.storeBefore)

\* C11: a question asked with an empty API key or with no index is rejected:
\* no retrieval or generation call and the history unchanged.  Otherwise the
\* user entry is appended first and the assistant entry, when the chain
\* returns, right after it; so every assistant entry of the history directly
\* follows a user entry (of the same question for the turn just run), and it
\* has sources only in "Answer + sources" mode and citations only in
\* "Answer + citations" mode.
C11_GuardedTurnsAndHistoryShape ==
    /\ \A i \in 1..Len(messages) :
          messages[i].role = "assistant" =>
              /\ i > 1 /\ messages[i - 1].role = "user"
              /\ ~({"sources", "citations"} \subseteq DOMAIN messages[i])
    /\ AskRun =>
          /\ Rejected => (run.calls = <<>> /\ messages = run.before)
          /\ ~Rejected =>
                /\ Len(run.calls) >= 1
                /\ Len(messages) > Len(run.before)
                /\ SubSeq(messages, 1, Len(run.before)) = run.before
                /\ messages[Len(run.before) + 1] = UserMessage(run.question)
                /\ Len(messages) = Len(run.before) + (IF run.status = "ok" THEN 2 ELSE 1)
          /\ run.status = "ok" =>
                LET last == messages[Len(messages)] IN
                /\ ~Rejected
                /\ last.role = "assistant"
                /\ messages[Len(messages) - 1] = UserMessage(run.question)
                /\ ("sources" \in DOMAIN last) <=> (run.mode = "Answer + sources")
                /\ ("citations" \in DOMAIN last) <=> (run.mode = CitationsMode)

\* a turn answered with sources, recorded after the user entry left by a
\* turn that failed
C11_Witness ==
    /\ AskRun /\ run.status = "ok" /\ run.mode = "Answer + sources"
    /\ Len(messages) = 3
    /\ messages[1].role = "user" /\ messages[2].role = "user"
    /\ "sources" \in DOMAIN messages[3] /\ messages[3].sources # <<>>

----------------------------------------------------------------------------
(* Properties of chunking (specification Spec) *)

\* the last run chunked every file of its batch
Chunked == BuildRun /\ run.status \notin {"ExtractionFailure", "GenerationFailure"}

\* every chunk produced so far that is still held: the stored ones and, after
\* a build that chunked but could not store, the chunks of that build
Produced ==
    IF BuildRun /\ run.status \in {"EmbeddingFailure", "StoreFailure"}
    THEN collection.docs \o run.docs
    ELSE collection.docs

\* C10: a completed chunking yields one chunk per window, in window order;
\* chunk i is the stripped context generated for window i, the separator
\* "\n\n", then the text of window i, with the page and source of window i
\* and the file name of that source as title; no two chunks share an id.
C10_OneChunkPerWindow ==
    /\ Chunked =>
          LET windows == BuildWindows(run.files) IN
          /\ Len(run.docs) = Len(windows)
          /\ \A i \in 1..Len(windows) :
                LET d == run.docs[i]
                    w == windows[i]
                IN  /\ d.page_content =
                          Strip(run.replies[i].value) \o <<"\n", "\n">> \o w.page_content
                    /\ d.metadata.page = w.metadata.page
                    /\ d.metadata.source = w.metadata.source
                    /\ d.metadata.title = << w.metadata.source[Len(w.metadata.source)] >>
                    /\ d.metadata.title \in {<<name>> : name \in FileNames}
    /\ \A i, j \in 1..Len(Produced) :
          Produced[i].metadata.id = Produced[j].metadata.id => i = j

\* a build of several windows whose chunks joined those of an earlier build,
\* one context having needed strip()
C10_Witness ==
    /\ Chunked /\ run.status = "ok"
    /\ Len(run.docs) >= 2
    /\ Len(collection.docs) > Len(run.docs)
    /\ \E i \in 1..Len(run.replies) : Strip(run.replies[i].value) # run.replies[i].value

====
